---- MODULE Spec2Model ----
(***************************************************************************)
(* Model of the MKR5/DART protocol engine of UNG-S3:                       *)
(*   src/utils.py             calc_crc, bcd_pack, bcd_unpack               *)
(*   src/driver.py            MKR5Driver (cyclic block counter, CD1 block) *)
(*   src/serial_io/driver.py  MKR5Driver (transactions passed by caller)   *)
(*   src/pump_service.py      the module-level shared driver               *)
(* Bytes are naturals 0..255, byte strings are sequences of bytes.         *)
(***************************************************************************)
EXTENDS Integers, Sequences, FiniteSets, TLC

(***************************************************************************)
(* Bounds of the model.                                                    *)
(***************************************************************************)
\* most stale bytes the line may hold before a call
MaxStale == 1
\* most send_command calls one thread makes in the concurrent specification
MaxCalls == 1

(***************************************************************************)
(* Python integer operators on naturals.                                   *)
(***************************************************************************)
RECURSIVE BitXor(_, _)
BitXor(a, b) ==
    IF a = 0 THEN b
    ELSE IF b = 0 THEN a
    ELSE (((a % 2) + (b % 2)) % 2) + 2 * BitXor(a \div 2, b \div 2)

RECURSIVE BitAnd(_, _)
BitAnd(a, b) ==
    IF a = 0 \/ b = 0 THEN 0
    ELSE ((a % 2) * (b % 2)) + 2 * BitAnd(a \div 2, b \div 2)

RECURSIVE BitOr(_, _)
BitOr(a, b) ==
    IF a = 0 THEN b
    ELSE IF b = 0 THEN a
    ELSE (IF a % 2 = 1 \/ b % 2 = 1 THEN 1 ELSE 0) + 2 * BitOr(a \div 2, b \div 2)

RECURSIVE Pow2(_)
Pow2(n) == IF n = 0 THEN 1 ELSE 2 * Pow2(n - 1)

Shl(a, n) == a * Pow2(n)
Shr(a, n) == a \div Pow2(n)

Min(a, b) == IF a < b THEN a ELSE b
Max(a, b) == IF a > b THEN a ELSE b

\* s[a:b] of Python for 0 <= a, any b >= 0 (both clamped to len(s))
Slice(s, a, b) ==
    LET lo == Min(a, Len(s))
        hi == Min(b, Len(s))
    IN  IF hi <= lo THEN <<>> ELSE SubSeq(s, lo + 1, hi)

\* a negative Python index or slice bound, counted from the end, clamped at 0
FromEnd(s, k) == Max(Len(s) - k, 0)

(***************************************************************************)
(* src/utils.py: calc_crc                                                  *)
(***************************************************************************)
\* one pass of `for _ in range(8)`: shift left, xor 0x1021 when bit 15 was set
\* (for 0 <= crc < 2^16: `crc & 0x8000` is non-zero iff crc >= 32768, and
\* `x & 0xFFFF` is x % 65536, which commutes with the xor by 0x1021 < 2^16)
CrcShift(crc) ==
    LET c == IF crc >= 32768
             THEN BitXor(Shl(crc, 1) % 65536, 4129)
             ELSE Shl(crc, 1) % 65536
    IN  IF c >= 0 THEN c ELSE 0

\* `for _ in range(8)`
CrcShifts(crc) ==
    CrcShift(CrcShift(CrcShift(CrcShift(CrcShift(CrcShift(CrcShift(CrcShift(crc))))))))

\* the body of `for b in data`: crc ^= b << 8, then the eight shifts
CrcByte(crc, b) == CrcShifts(BitXor(crc, Shl(b, 8)))

\* `for b in data` from the i-th byte on (the guard on c only orders the evaluation)
RECURSIVE CrcFrom(_, _, _)
CrcFrom(crc, data, i) ==
    IF i > Len(data) THEN crc
    ELSE LET c == CrcByte(crc, data[i])
         IN  IF c >= 0 THEN CrcFrom(c, data, i + 1) ELSE 0

calc_crc(data) == CrcFrom(0, data, 1)

(***************************************************************************)
(* src/utils.py: bcd_unpack                                                *)
(***************************************************************************)
\* f"{byte:02d}": the decimal rendering of the byte, at least two digits
Fmt02d(byte) ==
    IF byte < 100 THEN <<byte \div 10, byte % 10>>
    ELSE <<byte \div 100, (byte \div 10) % 10, byte % 10>>

RECURSIVE JoinDigits(_, _)
JoinDigits(bcd, i) ==
    IF i > Len(bcd) THEN <<>> ELSE Fmt02d(bcd[i]) \o JoinDigits(bcd, i + 1)

\* int(digits): the integer, kept as its decimal digits without leading zeros
\* (a natural of up to 12 digits does not fit TLC's 32-bit integers)
RECURSIVE IntOfDigits(_)
IntOfDigits(digits) ==
    IF Len(digits) > 1 /\ digits[1] = 0 THEN IntOfDigits(Tail(digits)) ELSE digits

\* bcd_unpack(bcd, decimals): <<int_val, decimals>> stands for int_val / 10**decimals;
\* int("") raises ValueError
bcd_unpack(bcd, decimals) ==
    LET digits == JoinDigits(bcd, 1)
    IN  IF digits = <<>> THEN [exc |-> "ValueError", val |-> <<<<0>>, decimals>>]
        ELSE [exc |-> "none", val |-> <<IntOfDigits(digits), decimals>>]

(***************************************************************************)
(* src/utils.py: bcd_pack, _int_to_bcd                                     *)
(* A non-negative integer is kept as its decimal digits without leading    *)
(* zeros (<<0>> for zero), so that 16-digit values can be packed.          *)
(***************************************************************************)
\* a < b for digit sequences without leading zeros
RECURSIVE DigitsLess(_, _)
DigitsLess(a, b) ==
    IF Len(a) # Len(b) THEN Len(a) < Len(b)
    ELSE IF a = <<>> THEN FALSE
    ELSE IF a[1] # b[1] THEN a[1] < b[1]
    ELSE DigitsLess(Tail(a), Tail(b))

\* a + 1 on digit sequences
RECURSIVE IncDigits(_)
IncDigits(a) ==
    IF a = <<>> THEN <<1>>
    ELSE IF a[Len(a)] < 9 THEN [a EXCEPT ![Len(a)] = @ + 1]
    ELSE Append(IncDigits(SubSeq(a, 1, Len(a) - 1)), 0)

\* 2^53: from here up to 2^54 a Python float holds even integers only
TwoTo53 == <<9, 0, 0, 7, 1, 9, 9, 2, 5, 4, 7, 4, 0, 9, 9, 2>>

\* float(s) for an integer s < 2^54 (at most 16 digits), as an integer:
\* s itself below 2^53; above, an odd s lies halfway between two floats and
\* goes to the one with the even mantissa (s - 1 when s % 4 = 1, else s + 1)
FloatOfInt(s) ==
    IF DigitsLess(s, TwoTo53) \/ s[Len(s)] % 2 = 0 THEN s
    ELSE IF (10 * s[Len(s) - 1] + s[Len(s)]) % 4 = 1
         THEN [s EXCEPT ![Len(s)] = @ - 1]
         ELSE IncDigits(s)

\* scaled = int(round(number * (10 ** decimals))) for the float
\* number = s / 10**decimals.  With decimals = 0 the float is float(s) and
\* the product and the rounding are exact; with decimals > 0 and s < 10^14
\* the two float roundings move the product by less than 1/2, so scaled = s.
\* (The callers of the model pass no other combination.)
ScaledOf(s, decimals) == IF decimals = 0 THEN FloatOfInt(s) ELSE s

\* f"{value:0{digit_count}d}": zero-padded to digit_count digits, longer
\* when the value has more digits
RECURSIVE ZeroPad(_, _)
ZeroPad(value, digit_count) ==
    IF Len(value) >= digit_count THEN value ELSE ZeroPad(<<0>> \o value, digit_count)

\* _int_to_bcd: bytes(int(s[i : i + 2], 10) for i in range(0, digit_count, 2))
int_to_bcd(value, digit_count) ==
    LET s == ZeroPad(value, digit_count)
    IN  [k \in 1..(digit_count \div 2) |-> 10 * s[2 * k - 1] + s[2 * k]]

\* bcd_pack(number, decimals=, length=) for number = s / 10**decimals;
\* no statement of it raises for a non-negative number
bcd_pack(s, decimals, length) ==
    LET scaled == ScaledOf(s, decimals)
        digit_count == length * 2
    IN  [exc |-> "none", val |-> int_to_bcd(scaled, digit_count)]

(***************************************************************************)
(* src/settings.py                                                         *)
(***************************************************************************)
PRICE_DECIMALS == 2
VOL_DECIMALS == 3
AMT_DECIMALS == 2

(***************************************************************************)
(* src/driver.py: constants, block counter, control byte, outbound block   *)
(***************************************************************************)
RETURN_STATUS == 0
RETURN_PUMP_PARAMS == 2
CD1 == 1
ETX == 3
SF == 250

\* (mutant of next_tx: a plain 4-bit wrap, which passes through 0)
next_tx_Wrap16(n) == (n + 1) % 16

\* _next_tx: the value stored into self._tx_number
next_tx(n) == (n % 15) + 1

\* ctrl = 0x80 | ((txn & 0x0F) << 4)
CtrlByte(txn) == BitOr(128, Shl(BitAnd(txn, 15), 4))

\* block = bytes([addr, ctrl]) + data3 ; the bytes the CRC is computed over
BlockOf(pump_id, txn, dcc) == <<80 + pump_id, CtrlByte(txn)>> \o <<CD1, 1>> \o <<dcc>>

\* crc_bytes = bytes([crc & 0xFF, (crc >> 8) & 0xFF])
CrcBytes(crc) == <<BitAnd(crc, 255), BitAnd(Shr(crc, 8), 255)>>

\* (mutant of PacketOf: the CRC taken over the block and its terminator)
PacketOf_CrcOverTerminator(pump_id, txn, dcc) ==
    LET block == BlockOf(pump_id, txn, dcc)
    IN  block \o CrcBytes(calc_crc(block \o <<ETX, SF>>)) \o <<ETX, SF>>

\* packet = block + crc_bytes + b"\x03\xFA"
PacketOf(pump_id, txn, dcc) ==
    LET block == BlockOf(pump_id, txn, dcc)
    IN  block \o CrcBytes(calc_crc(block)) \o <<ETX, SF>>

(***************************************************************************)
(* src/serial_io/driver.py: control byte and outbound block                *)
(***************************************************************************)
SD == 241

\* ctrl = 0x80 | (pump_id & 0x0F)
SioCtrlByte(pump_id) == BitOr(128, BitAnd(pump_id, 15))

\* packet = [addr, ctrl] + SD + transactions + crc_low, crc_high + 03 FA
SioPacketOf(pump_id, transactions) ==
    LET packet == <<80 + pump_id, SioCtrlByte(pump_id)>> \o <<SD>> \o transactions
        crc_value == calc_crc(packet)
    IN  packet \o <<BitAnd(crc_value, 255), BitAnd(Shr(crc_value, 8), 255)>> \o <<ETX, SF>>

(***************************************************************************)
(* src/driver.py: parse_response                                           *)
(* A decoded dict is a record; a key is absent when its field is <<>> and  *)
(* holds <<value>> otherwise.  PyNone stands for Python's None.            *)
(***************************************************************************)
PyNone == -1

EmptyData ==
    [pump_status |-> <<>>, current_volume |-> <<>>, current_amount |-> <<>>,
     current_nozzle |-> <<>>, nozzle_out |-> <<>>, current_price |-> <<>>,
     grades_mask |-> <<>>, pump_identity |-> <<>>]

\* mapping.get(st, f"UNKNOWN({st})")
StatusName(st) ==
    CASE st = 0 -> <<"NOT_PROGRAMMED">>
      [] st = 1 -> <<"RESET">>
      [] st = 2 -> <<"AUTHORIZED">>
      [] st = 4 -> <<"FILLING">>
      [] st = 5 -> <<"FILLING_COMPLETE">>
      [] st = 6 -> <<"MAX_REACHED">>
      [] st = 7 -> <<"SWITCHED_OFF">>
      [] OTHER -> <<"UNKNOWN", st>>

\* (mutant of GradesOf: the first grade byte sets bit 1)
RECURSIVE GradesOf_FromBit1(_, _)
GradesOf_FromBit1(grade_bytes, idx) ==
    IF idx >= Len(grade_bytes) THEN 0
    ELSE (IF grade_bytes[idx + 1] # 0 THEN Shl(1, idx + 1) ELSE 0)
         + GradesOf_FromBit1(grade_bytes, idx + 1)

\* grades |= (1 << idx) for every non-zero byte of grade_bytes
RECURSIVE GradesOf(_, _)
GradesOf(grade_bytes, idx) ==
    IF idx >= Len(grade_bytes) THEN 0
    ELSE (IF grade_bytes[idx + 1] # 0 THEN Shl(1, idx) ELSE 0)
         + GradesOf(grade_bytes, idx + 1)

\* "".join(f"{b:02X}" for b in content): two hex digits (0..15) per byte
RECURSIVE HexOf(_, _)
HexOf(content, i) ==
    IF i > Len(content) THEN <<>>
    ELSE <<content[i] \div 16, content[i] % 16>> \o HexOf(content, i + 1)

\* (mutant of UnknownRecord: an unrecognized code is rejected)
UnknownRecord_Raises(trans, data) == [exc |-> "ValueError", data |-> data]

\* else: logger.info(f"Unknown transaction 0x{trans:02X}, skipping")
UnknownRecord(trans, data) == [exc |-> "none", data |-> data]

\* (mutant of NextCursor: the two header bytes are not counted)
NextCursor_LenOnly(core, i) == i + core[i + 2]

\* i += 2 + ln
NextCursor(core, i) == i + 2 + core[i + 2]

\* the body of one `while` iteration on the record at cursor i (0-based):
\* the exception it raises, or the dict after it
DecodeRecord(core, i, data) ==
    IF i + 1 >= Len(core) THEN [exc |-> "IndexError", data |-> data]
    ELSE
    LET trans == core[i + 1]
        ln == core[i + 2]
        content == Slice(core, i + 2, i + 2 + ln)
    IN  CASE trans = 1 ->
               IF Len(content) = 0 THEN [exc |-> "IndexError", data |-> data]
               ELSE [exc |-> "none",
                     data |-> [data EXCEPT !.pump_status = <<StatusName(content[1])>>]]
          [] trans = 2 ->
               LET vol == bcd_unpack(Slice(content, 0, 4), VOL_DECIMALS)
                   amt == bcd_unpack(Slice(content, 4, 8), AMT_DECIMALS)
               IN  IF vol.exc # "none" THEN [exc |-> vol.exc, data |-> data]
                   ELSE IF amt.exc # "none" THEN [exc |-> amt.exc, data |-> data]
                   ELSE [exc |-> "none",
                         data |-> [data EXCEPT !.current_volume = <<vol.val>>,
                                               !.current_amount = <<amt.val>>]]
          [] trans = 3 ->
               LET price == bcd_unpack(Slice(content, 0, 3), PRICE_DECIMALS)
               IN  IF price.exc # "none" THEN [exc |-> price.exc, data |-> data]
                   ELSE IF Len(content) < 4 THEN [exc |-> "IndexError", data |-> data]
                   ELSE LET noz == BitAnd(content[4], 15)
                            outf == Shr(BitAnd(content[4], 16), 4) # 0
                        IN  [exc |-> "none",
                             data |-> [data EXCEPT
                                 !.current_nozzle = <<IF noz # 0 THEN noz ELSE PyNone>>,
                                 !.nozzle_out = <<outf>>,
                                 !.current_price = <<price.val>>]]
          [] trans = 7 ->
               LET grade_bytes == Slice(content, FromEnd(content, 15), Len(content))
               IN  [exc |-> "none",
                    data |-> [data EXCEPT !.grades_mask = <<GradesOf(grade_bytes, 0)>>]]
          [] trans = 9 ->
               [exc |-> "none",
                data |-> [data EXCEPT !.pump_identity = <<HexOf(content, 1)>>]]
          [] OTHER -> UnknownRecord(trans, data)

\* while i < len(core): ... i += 2 + ln ; `trail` lists the cursors visited
RECURSIVE DecodeLoop(_, _, _, _)
DecodeLoop(core, i, data, trail) ==
    IF i >= Len(core) THEN [exc |-> "none", data |-> data, trail |-> trail]
    ELSE LET r == DecodeRecord(core, i, data)
         IN  IF r.exc # "none"
             THEN [exc |-> r.exc, data |-> EmptyData, trail |-> Append(trail, i)]
             ELSE DecodeLoop(core, NextCursor(core, i), r.data, Append(trail, i))

\* (mutant of parse_response: only the low CRC byte is compared)
parse_response_CrcLowOnly(resp) ==
    LET core == Slice(resp, 2, FromEnd(resp, 2))
    IN  IF Len(core) < 2
        THEN [exc |-> "IndexError", data |-> EmptyData, trail |-> <<>>]
        ELSE LET recv_crc == core[Len(core) - 1]
                 calc == calc_crc(Slice(resp, 0, FromEnd(resp, 4)))
             IN  IF recv_crc # calc % 256
                 THEN [exc |-> "CRC mismatch", data |-> EmptyData, trail |-> <<>>]
                 ELSE DecodeLoop(core, 0, EmptyData, <<>>)

\* parse_response(resp): exc is the exception raised ("none": data is returned)
parse_response(resp) ==
    LET core == Slice(resp, 2, FromEnd(resp, 2))
    IN  IF Len(core) < 2
        THEN [exc |-> "IndexError", data |-> EmptyData, trail |-> <<>>]
        ELSE LET recv_crc == BitOr(core[Len(core) - 1], Shl(core[Len(core)], 8))
                 calc == calc_crc(Slice(resp, 0, FromEnd(resp, 4)))
             IN  IF recv_crc # calc
                 THEN [exc |-> "CRC mismatch", data |-> EmptyData, trail |-> <<>>]
                 ELSE DecodeLoop(core, 0, EmptyData, <<>>)

(***************************************************************************)
(* src/serial_io/driver.py: parse_response                                 *)
(* The keys current_nozzle, nozzle_out, current_price, current_volume and  *)
(* current_amount are never stored: the statements that would store them   *)
(* come after a read of the name `settings`, which the module neither      *)
(* imports nor defines (NameError).                                        *)
(***************************************************************************)
SioEmptyData == [error |-> <<>>, pump_status_code |-> <<>>, pump_status |-> <<>>]

\* status_map.get(status_code, f"UNKNOWN({status_code})")
SioStatusName(status_code) ==
    CASE status_code = 0 -> <<"PUMP NOT PROGRAMMED">>
      [] status_code = 1 -> <<"RESET">>
      [] status_code = 2 -> <<"AUTHORIZED">>
      [] status_code = 4 -> <<"FILLING">>
      [] status_code = 5 -> <<"FILLING COMPLETE">>
      [] status_code = 6 -> <<"MAX REACHED">>
      [] status_code = 7 -> <<"SWITCHED OFF">>
      [] OTHER -> <<"UNKNOWN", status_code>>

\* the body of one `while` iteration on the record at cursor i (0-based)
SioDecodeRecord(payload, i, data) ==
    IF i + 1 >= Len(payload) THEN [exc |-> "IndexError", data |-> data]
    ELSE
    LET trans_code == payload[i + 1]
        length == payload[i + 2]
        content == Slice(payload, i + 2, i + 2 + length)
    IN  CASE trans_code = 1 ->
               IF Len(content) = 0 THEN [exc |-> "IndexError", data |-> data]
               ELSE [exc |-> "none",
                     data |-> [data EXCEPT !.pump_status_code = <<content[1]>>,
                                           !.pump_status = <<SioStatusName(content[1])>>]]
          [] trans_code = 3 ->
               IF Len(content) >= 4 THEN [exc |-> "NameError", data |-> data]
               ELSE [exc |-> "none", data |-> data]
          [] trans_code = 2 -> [exc |-> "NameError", data |-> data]
          [] OTHER -> [exc |-> "none", data |-> data]

\* while i < len(payload): ... i += 2 + length
RECURSIVE SioDecodeLoop(_, _, _, _)
SioDecodeLoop(payload, i, data, trail) ==
    IF i >= Len(payload) THEN [exc |-> "none", data |-> data, trail |-> trail]
    ELSE LET r == SioDecodeRecord(payload, i, data)
         IN  IF r.exc # "none"
             THEN [exc |-> r.exc, data |-> SioEmptyData, trail |-> Append(trail, i)]
             ELSE SioDecodeLoop(payload, NextCursor(payload, i), r.data,
                                Append(trail, i))

\* parse_response(response) of src/serial_io/driver.py
SioParseResponse(response) ==
    IF Len(response) < 5 THEN [exc |-> "none", data |-> SioEmptyData, trail |-> <<>>]
    ELSE
    LET n == Len(response)
        core_data == IF response[n - 1] = ETX /\ response[n] = SF
                     THEN Slice(response, 0, FromEnd(response, 2))
                     ELSE response
        m == Len(core_data)
        recv_crc_low == core_data[m - 1]
        recv_crc_high == core_data[m]
        core_wo_crc == Slice(core_data, 0, FromEnd(core_data, 2))
        calc == calc_crc(core_wo_crc)
        data == IF BitAnd(calc, 255) # recv_crc_low
                   \/ BitAnd(Shr(calc, 8), 255) # recv_crc_high
                THEN [SioEmptyData EXCEPT !.error = <<"CRC_ERROR">>]
                ELSE SioEmptyData
    IN  IF Len(core_wo_crc) < 2
        THEN [exc |-> "IndexError", data |-> SioEmptyData, trail |-> <<>>]
        ELSE SioDecodeLoop(Slice(core_wo_crc, 2, Len(core_wo_crc)), 0, data, <<>>)

(***************************************************************************)
(* The serial channel (pyserial) as the drivers use it.                    *)
(***************************************************************************)
\* ser.reset_input_buffer(): the pending inbound bytes are dropped
reset_input_buffer(buf) == <<>>

RECURSIVE FirstSF(_, _)
FirstSF(buf, i) ==
    IF i > Len(buf) THEN 0 ELSE IF buf[i] = SF THEN i ELSE FirstSF(buf, i + 1)

\* ser.read_until(expected=b"\xFA"): the bytes up to and including the first
\* 0xFA, or, when the timeout elapses first, every byte that arrived
read_until(buf) ==
    LET k == FirstSF(buf, 1)
    IN  IF k = 0 THEN [resp |-> buf, rest |-> <<>>]
        ELSE [resp |-> SubSeq(buf, 1, k), rest |-> SubSeq(buf, k + 1, Len(buf))]

\* an inbound block as a pump frames it: ADDR CTRL records CRC_LO CRC_HI 03 FA
FrameOf(addr, ctrl, records) ==
    LET block == <<addr, ctrl>> \o records
    IN  block \o CrcBytes(calc_crc(block)) \o <<ETX, SF>>

(***************************************************************************)
(* State.                                                                  *)
(***************************************************************************)
VARIABLES
    impl,        \* which MKR5Driver class the session is: "driver" | "serial_io"
    ser,         \* self.ser: "None" | "open" | "closed"
    tx_number,   \* self._tx_number (src/driver.py)
    inbuf,       \* inbound bytes pending on the channel
    wire,        \* the last block handed to ser.write, with the call's arguments
    prev,        \* <<ADDR, CTRL>> and sequence number of the block before it
    call,        \* the last send_command call: its outcome and channel steps
    th,          \* per thread: position in send_command and its locals
    allocs,      \* number of _next_tx calls completed by the threads
    p_resp,      \* the byte string handed to parse_response
    p_kind,      \* how p_resp was obtained: "none" | "valid" | "corrupted" |
                 \* "truncated" | "malformed" | "returned"
    p_out,       \* what parse_response gave for p_resp
    codec,       \* the last use of the BCD codec: its arguments and results
    loop,        \* parse_response's record loop, one `while` iteration at a time
    svc          \* the last operation of the service layer: arguments and outcome

chanVars == <<impl, ser, tx_number, inbuf, wire, prev, call>>
concVars == <<th, allocs>>
parseVars == <<p_resp, p_kind, p_out>>
vars == <<impl, ser, tx_number, inbuf, wire, prev, call, th, allocs, p_resp, p_kind, p_out,
          codec, loop, svc>>

\* pump indexes and sub-commands the callers use in the model
PumpIds == {1, 31}
Dccs == {RETURN_STATUS, RETURN_PUMP_PARAMS, 255}
\* transaction byte strings a caller of src/serial_io/driver.py passes
SioTransactions == {<<1, 1, 0>>, <<2, 1, 1, 1, 1, 6>>}
\* bytes of line noise
NoiseBytes == {0, SF}
Threads == {1, 2}

\* what the addressed pump may put on the line after a block was written:
\* nothing, a status block, or a status block cut short
RepliesOf(pump_id) ==
    LET full == FrameOf(80 + pump_id, 48, <<1, 1, 2>>)
    IN  {<<>>, full, SubSeq(full, 1, 4)}

\* the blocks and replies of the model, computed once
Replies == [p \in PumpIds |-> RepliesOf(p)]
Packets == [p \in PumpIds, t \in 0..15, d \in Dccs |-> PacketOf(p, t, d)]
SioPackets == [p \in PumpIds, t \in SioTransactions |-> SioPacketOf(p, t)]
StatusReply == [p \in PumpIds |-> FrameOf(80 + p, 48, <<1, 1, 2>>)]

NoBlock == [packet |-> <<>>, pump_id |-> 0, dcc |-> 0, txn |-> 0]
NoPrev == [hdr |-> <<>>, txn |-> 0]
NoCall == [outcome |-> "none", resp |-> <<>>, ops |-> <<>>, stale |-> 0]
NotParsed == [exc |-> "not parsed", data |-> EmptyData, trail |-> <<>>]
IdleThread == [pc |-> "idle", pump_id |-> 0, reg |-> 0, txn |-> 0, resp |-> <<>>, calls |-> 0]

InitChan ==
    /\ ser = "None"
    /\ tx_number = 0
    /\ inbuf = <<>>
    /\ wire = NoBlock
    /\ prev = NoPrev
    /\ call = NoCall

InitConc ==
    /\ th = [t \in Threads |-> IdleThread]
    /\ allocs = 0

NoCodec == [op |-> "none", s |-> <<>>, decimals |-> 0, length |-> 0,
            packed |-> [exc |-> "none", val |-> <<>>],
            out |-> [exc |-> "none", val |-> <<<<>>, 0>>]]

\* no parse_response call is in its record loop
NoLoop == [pc |-> "idle", core |-> <<>>, i |-> 0, data |-> EmptyData, iters |-> 0,
           prev_i |-> 0, prev_data |-> EmptyData, nozzles |-> <<>>]

\* no service operation was called
NoSvc == [op |-> "none", pump_id |-> 0, prices |-> <<>>, nozzle |-> <<>>,
          volume |-> <<>>, amount |-> <<>>,
          composed |-> [exc |-> "none", val |-> <<>>], was_open |-> FALSE,
          outcome |-> "none"]

InitParse ==
    /\ p_resp = <<>>
    /\ p_kind = "none"
    /\ p_out = NotParsed
    /\ codec = NoCodec
    /\ loop = NoLoop
    /\ svc = NoSvc

\* __init__ of either class
Init ==
    /\ impl \in {"driver", "serial_io"}
    /\ InitChan
    /\ InitConc
    /\ InitParse

(***************************************************************************)
(* open / close (both drivers)                                             *)
(***************************************************************************)
Open ==
    /\ ser' = "open"
    /\ UNCHANGED <<impl, tx_number, inbuf, wire, prev, call>>
    /\ UNCHANGED <<concVars, parseVars, codec, loop, svc>>

Close ==
    /\ ser' = IF ser = "open" THEN "closed" ELSE ser
    /\ UNCHANGED <<impl, tx_number, inbuf, wire, prev, call>>
    /\ UNCHANGED <<concVars, parseVars, codec, loop, svc>>

\* a byte arrives on the line while no exchange is running
LineNoise(b) ==
    /\ ser = "open"
    /\ Len(inbuf) < MaxStale
    /\ inbuf' = Append(inbuf, b)
    /\ UNCHANGED <<impl, ser, tx_number, wire, prev, call>>
    /\ UNCHANGED <<concVars, parseVars, codec, loop, svc>>

\* the write-then-read part of an exchange on a buffer holding `before`:
\* the reply arrives, read_until returns; `stale` counts the returned bytes
\* that were pending before the write
Exchange(before, reply) ==
    LET r == read_until(before \o reply)
    IN  [resp |-> r.resp, rest |-> r.rest, stale |-> Min(Len(r.resp), Len(before))]

PrevOf(w) == IF w.packet = <<>> THEN NoPrev
             ELSE [hdr |-> SubSeq(w.packet, 1, 2), txn |-> w.txn]

(***************************************************************************)
(* src/driver.py: send_command(pump_id, dcc)                               *)
(***************************************************************************)
\* a service operation starts: the response and the parse result of the
\* previous operation (locals of the caller) are gone
ForgetParse ==
    /\ p_resp' = <<>>
    /\ p_kind' = "none"
    /\ p_out' = NotParsed

\* (mutant of IsOpen: a port closed by close() still counts as open)
IsOpen_ClosedCounts(s) == s # "None"

\* self.ser and self.ser.is_open
IsOpen(s) == s = "open"

\* (mutant of DriverOps: the block is written and read again after a timeout)
DriverOps_RetryOnEmpty(resp) ==
    IF resp = <<>>
    THEN <<"reset_input_buffer", "write", "read_until", "write", "read_until">>
    ELSE <<"reset_input_buffer", "write", "read_until">>

\* the channel operations of one call that returns resp: lines 71, 72, 75,
\* once each whatever was read
DriverOps(resp) == <<"reset_input_buffer", "write", "read_until">>

SendCommand(pump_id, dcc, reply) ==
    /\ impl = "driver"
    /\ IF ~IsOpen(ser)
       THEN /\ call' = [NoCall EXCEPT !.outcome = "RuntimeError"]
            /\ UNCHANGED <<impl, ser, tx_number, inbuf, wire, prev>>
       ELSE LET txn == next_tx(tx_number)
                x == Exchange(reset_input_buffer(inbuf), reply)
            IN  /\ tx_number' = txn
                /\ wire' = [packet |-> Packets[pump_id, txn, dcc],
                            pump_id |-> pump_id, dcc |-> dcc, txn |-> txn]
                /\ prev' = PrevOf(wire)
                /\ inbuf' = x.rest
                /\ call' = [outcome |-> "returned", resp |-> x.resp,
                            ops |-> DriverOps(x.resp),
                            stale |-> x.stale]
                /\ UNCHANGED <<impl, ser>>
    /\ ForgetParse
    /\ UNCHANGED <<concVars, codec, loop, svc>>

\* send_command(pump_id, dcc) on an open port whose write raises
\* (serial.SerialException): the statements before line 72 have run
SendCommandWriteFails(pump_id, dcc) ==
    /\ impl = "driver"
    /\ IsOpen(ser)
    /\ LET txn == next_tx(tx_number)
       IN  /\ tx_number' = txn
           /\ wire' = [packet |-> Packets[pump_id, txn, dcc],
                       pump_id |-> pump_id, dcc |-> dcc, txn |-> txn]
           /\ prev' = PrevOf(wire)
           /\ inbuf' = reset_input_buffer(inbuf)
           /\ call' = [outcome |-> "SerialException", resp |-> <<>>,
                       ops |-> <<"reset_input_buffer", "write">>, stale |-> 0]
    /\ UNCHANGED <<impl, ser>>
    /\ ForgetParse
    /\ UNCHANGED <<concVars, codec, loop, svc>>

(***************************************************************************)
(* src/serial_io/driver.py: send_command(pump_id, transactions)            *)
(***************************************************************************)
SioSendCommand(pump_id, transactions, reply) ==
    /\ impl = "serial_io"
    /\ IF ~IsOpen(ser)
       THEN /\ call' = [NoCall EXCEPT !.outcome = "RuntimeError"]
            /\ UNCHANGED <<impl, ser, tx_number, inbuf, wire, prev>>
       ELSE LET x == Exchange(inbuf, reply)
            IN  /\ wire' = [packet |-> SioPackets[pump_id, transactions],
                            pump_id |-> pump_id, dcc |-> 0, txn |-> 0]
                /\ prev' = PrevOf(wire)
                /\ inbuf' = x.rest
                /\ call' = [outcome |-> "returned", resp |-> x.resp,
                            ops |-> <<"write", "read_until">>,
                            stale |-> x.stale]
                /\ UNCHANGED <<impl, ser, tx_number>>
    /\ ForgetParse
    /\ UNCHANGED <<concVars, codec, loop, svc>>

\* (mutant of ParseReturned: parsing a response advances the counter)
ParseReturned_TouchesCounter ==
    /\ call.outcome = "returned"
    /\ p_resp' = call.resp
    /\ p_kind' = "returned"
    /\ p_out' = IF impl = "driver" THEN parse_response(call.resp)
                ELSE SioParseResponse(call.resp)
    /\ tx_number' = next_tx(tx_number)
    /\ UNCHANGED <<impl, ser, inbuf, wire, prev, call, concVars, codec, loop, svc>>

\* the caller hands the response send_command returned to parse_response
\* (src/pump_service.py: parsed = driver.parse_response(response))
ParseReturned ==
    /\ call.outcome = "returned"
    /\ p_resp' = call.resp
    /\ p_kind' = "returned"
    /\ p_out' = IF impl = "driver" THEN parse_response(call.resp)
                ELSE SioParseResponse(call.resp)
    /\ UNCHANGED <<chanVars, concVars, codec, loop, svc>>

Next ==
    \/ Open
    \/ Close
    \/ \E b \in NoiseBytes : LineNoise(b)
    \/ \E p \in PumpIds, dcc \in Dccs : \E reply \in Replies[p] : SendCommand(p, dcc, reply)
    \/ \E p \in PumpIds, dcc \in Dccs : SendCommandWriteFails(p, dcc)
    \/ ParseReturned
    \/ \E p \in PumpIds, t \in SioTransactions : \E reply \in Replies[p] :
           SioSendCommand(p, t, reply)

Spec == Init /\ [][Next]_vars

(***************************************************************************)
(* Concurrent callers of the shared driver of src/pump_service.py.         *)
(* The synchronous REST handlers of src/pump.py run on worker threads and  *)
(* all call send_command of the one module-level MKR5Driver; nothing in    *)
(* send_command takes a lock, so its statements interleave.  Each thread   *)
(* step below is one statement (for _next_tx: one attribute load or store).*)
(***************************************************************************)
\* src/pump_service.py: driver = MKR5Driver(...); driver.open()
InitShared ==
    /\ impl = "driver"
    /\ ser = "open"
    /\ tx_number = 0
    /\ inbuf = <<>>
    /\ wire = NoBlock
    /\ prev = NoPrev
    /\ call = NoCall
    /\ InitConc
    /\ InitParse

\* get_status(pump_id) -> driver.send_command(pump_id, dcc=RETURN_STATUS):
\* the open check passes
T_Call(t, pump_id) ==
    /\ th[t].pc \in {"idle", "done"}
    /\ th[t].calls < MaxCalls
    /\ ser = "open"
    /\ th' = [th EXCEPT ![t] = [pc |-> "load", pump_id |-> pump_id, reg |-> 0,
                                txn |-> 0, resp |-> <<>>, calls |-> @.calls + 1]]
    /\ UNCHANGED <<chanVars, allocs, parseVars, codec, loop, svc>>

\* _next_tx: the load of self._tx_number on the right-hand side
T_Load(t) ==
    /\ th[t].pc = "load"
    /\ th' = [th EXCEPT ![t].reg = tx_number, ![t].pc = "store"]
    /\ UNCHANGED <<chanVars, allocs, parseVars, codec, loop, svc>>

\* _next_tx: the store self._tx_number = (loaded % 0x0F) + 1
T_Store(t) ==
    /\ th[t].pc = "store"
    /\ tx_number' = next_tx(th[t].reg)
    /\ th' = [th EXCEPT ![t].pc = "return"]
    /\ UNCHANGED <<impl, ser, inbuf, wire, prev, call, allocs, parseVars, codec, loop, svc>>

\* _next_tx: return self._tx_number (a second load); txn = the value returned
T_Return(t) ==
    /\ th[t].pc = "return"
    /\ th' = [th EXCEPT ![t].txn = tx_number, ![t].pc = "reset"]
    /\ allocs' = allocs + 1
    /\ UNCHANGED <<chanVars, parseVars, codec, loop, svc>>

\* self.ser.reset_input_buffer()
T_Reset(t) ==
    /\ th[t].pc = "reset"
    /\ inbuf' = reset_input_buffer(inbuf)
    /\ th' = [th EXCEPT ![t].pc = "write"]
    /\ UNCHANGED <<impl, ser, tx_number, wire, prev, call, allocs, parseVars, codec, loop, svc>>

\* self.ser.write(packet); the addressed pump answers with its status block
T_Write(t) ==
    /\ th[t].pc = "write"
    /\ wire' = [packet |-> Packets[th[t].pump_id, th[t].txn, RETURN_STATUS],
                pump_id |-> th[t].pump_id, dcc |-> RETURN_STATUS, txn |-> th[t].txn]
    /\ prev' = PrevOf(wire)
    /\ inbuf' = inbuf \o StatusReply[th[t].pump_id]
    /\ th' = [th EXCEPT ![t].pc = "read"]
    /\ UNCHANGED <<impl, ser, tx_number, call, allocs, parseVars, codec, loop, svc>>

\* resp = self.ser.read_until(expected=b"\xFA"); return resp
T_Read(t) ==
    /\ th[t].pc = "read"
    /\ LET r == read_until(inbuf)
       IN  /\ inbuf' = r.rest
           /\ th' = [th EXCEPT ![t].resp = r.resp, ![t].pc = "done"]
    /\ UNCHANGED <<impl, ser, tx_number, wire, prev, call, allocs, parseVars, codec, loop, svc>>

NextConc ==
    \/ \E t \in Threads, p \in PumpIds : T_Call(t, p)
    \/ \E t \in Threads : T_Load(t)
    \/ \E t \in Threads : T_Store(t)
    \/ \E t \in Threads : T_Return(t)
    \/ \E t \in Threads : T_Reset(t)
    \/ \E t \in Threads : T_Write(t)
    \/ \E t \in Threads : T_Read(t)

SpecConc == InitShared /\ [][NextConc]_vars

(***************************************************************************)
(* Claims about concurrent callers (SpecConc).                             *)
(***************************************************************************)
\* C5 (as claimed): the write-then-read cycles of concurrent callers are
\* mutually exclusive: no caller writes while another caller has written and
\* not yet read, and every caller that has finished received the reply of
\* the pump it addressed.
C5_ExchangesSerialized ==
    /\ \A t, u \in Threads :
           (t # u /\ th[u].pc = "read") => th[t].pc # "read"
    /\ \A t \in Threads :
           th[t].pc = "done" => th[t].resp = StatusReply[th[t].pump_id]

RECURSIVE NextTxTimes(_, _)
NextTxTimes(n, k) == IF k = 0 THEN n ELSE NextTxTimes(next_tx(n), k - 1)

Quiescent == \A t \in Threads : th[t].pc \in {"idle", "done"}

\* C6 (as claimed): overlapping send_command calls lose no update of the
\* sequence counter: two calls that are under way hold different sequence
\* numbers, and once all calls have finished the counter has advanced once
\* per call.
C6_NoLostUpdate ==
    /\ \A t, u \in Threads :
           (t # u /\ th[t].pc \in {"reset", "write", "read"}
                  /\ th[u].pc \in {"reset", "write", "read"})
               => th[t].txn # th[u].txn
    /\ Quiescent => tx_number = NextTxTimes(0, allocs)

(***************************************************************************)
(* parse_response of src/driver.py on inbound blocks (SpecParse).          *)
(***************************************************************************)
\* validly framed blocks a pump may send: ADDR CTRL records CRC 03 FA
ValidFrames ==
    { FrameOf(81, 48, <<1, 1, 2>>),
      FrameOf(80, 144, <<1, 1, 5>>),
      FrameOf(81, 0, <<1, 1, 3>>),
      FrameOf(80, 160, <<1, 1, 2>>),
      FrameOf(81, 48, <<1, 1, 4, 3, 4, 0, 85, 80, 18>>) }

\* blocks with a correct CRC and terminator in which a record's declared
\* length, or its 2-byte header, extends past the bytes before the CRC field
MalformedFrames ==
    { FrameOf(81, 48, <<1, 9, 2>>),
      FrameOf(80, 48, <<1, 1, 2, 3, 9, 0, 85, 80, 18>>),
      FrameOf(81, 48, <<1, 1, 2, 1>>) }

\* a byte string arrives and is handed to the caller
Receive(frame) ==
    /\ p_kind = "none"
    /\ p_resp' = frame
    /\ p_kind' = "valid"
    /\ p_out' = NotParsed
    /\ UNCHANGED <<chanVars, concVars, codec, loop, svc>>

\* a block with an inconsistent record arrives and is handed to the caller
ReceiveMalformed(frame) ==
    /\ p_kind = "none"
    /\ p_resp' = frame
    /\ p_kind' = "malformed"
    /\ p_out' = NotParsed
    /\ UNCHANGED <<chanVars, concVars, codec, loop, svc>>

\* the line replaces byte i (1-based, within ADDR..last payload byte) by v
Corrupt(i, v) ==
    /\ p_kind = "valid"
    /\ p_out = NotParsed
    /\ i \in 1..(Len(p_resp) - 4)
    /\ v # p_resp[i]
    /\ p_resp' = [p_resp EXCEPT ![i] = v]
    /\ p_kind' = "corrupted"
    /\ UNCHANGED <<p_out, chanVars, concVars, codec, loop, svc>>

EndsWithTerminator(resp) ==
    Len(resp) >= 2 /\ resp[Len(resp) - 1] = ETX /\ resp[Len(resp)] = SF

\* read_until times out after k bytes of the block: the caller gets a prefix
\* that does not end with 03 FA
Truncate(k) ==
    /\ p_kind = "valid"
    /\ p_out = NotParsed
    /\ k \in 0..(Len(p_resp) - 1)
    /\ ~EndsWithTerminator(SubSeq(p_resp, 1, k))
    /\ p_resp' = SubSeq(p_resp, 1, k)
    /\ p_kind' = "truncated"
    /\ UNCHANGED <<p_out, chanVars, concVars, codec, loop, svc>>

\* driver.parse_response(resp), of the class the session is
ParseResponse ==
    /\ p_kind # "none"
    /\ p_out = NotParsed
    /\ p_out' = IF impl = "driver" THEN parse_response(p_resp)
                ELSE SioParseResponse(p_resp)
    /\ UNCHANGED <<p_resp, p_kind, chanVars, concVars, codec, loop, svc>>

InitDriver ==
    /\ impl = "driver"
    /\ InitChan
    /\ InitConc
    /\ InitParse

\* __init__ of src/serial_io/driver.py
InitSio ==
    /\ impl = "serial_io"
    /\ InitChan
    /\ InitConc
    /\ InitParse

NextParse ==
    \/ \E f \in ValidFrames : Receive(f)
    \/ \E f \in MalformedFrames : ReceiveMalformed(f)
    \/ \E i \in 1..Len(p_resp), v \in 0..255 : Corrupt(i, v)
    \/ \E k \in 0..Len(p_resp) : Truncate(k)
    \/ ParseResponse

SpecParse == InitDriver /\ [][NextParse]_vars

\* the same inputs handed to parse_response of src/serial_io/driver.py
SpecSioParse == InitSio /\ [][NextParse]_vars

(***************************************************************************)
(* The BCD codec of src/utils.py on its own (SpecBcd).                     *)
(***************************************************************************)
\* scaled values s handed to bcd_pack as the number s / 10**decimals
ScaledValues ==
    { <<0>>, <<5>>, <<1, 2>>, <<9, 9>>, <<1, 0, 0>>, <<1, 2, 3, 4>>,
      <<6, 5, 5, 3, 6>>, <<9, 9, 9, 9, 9, 9>>, <<1, 0, 0, 0, 0, 0, 0>>,
      <<1, 2, 3, 4, 5, 6, 7, 8>>,
      TwoTo53, IncDigits(TwoTo53), IncDigits(IncDigits(IncDigits(TwoTo53))) }
DecimalsUsed == {0, PRICE_DECIMALS, VOL_DECIMALS}
\* field widths in bytes
Lengths == {1, 3, 4, 8}
\* byte strings handed to bcd_unpack from the wire
RawFields ==
    { <<b>> : b \in {0, 9, 18, 26, 153, 160, 255} }
    \cup { <<18, 52>>, <<0, 26>>, <<18, 52, 86>>, <<153, 153, 153>> }

\* bcd_pack(s / 10**decimals, decimals=decimals, length=length)
Pack(s, decimals, length) ==
    /\ codec.op = "none"
    /\ decimals = 0 \/ Len(s) <= 14
    /\ codec' = [NoCodec EXCEPT !.op = "packed", !.s = s, !.decimals = decimals,
                                !.length = length,
                                !.packed = bcd_pack(s, decimals, length)]
    /\ UNCHANGED <<chanVars, concVars, p_resp, p_kind, p_out, loop, svc>>

\* bcd_unpack of the bytes bcd_pack produced, with the same decimals
Unpack ==
    /\ codec.op = "packed"
    /\ codec.packed.exc = "none"
    /\ codec' = [codec EXCEPT !.op = "unpacked",
                              !.out = bcd_unpack(codec.packed.val, codec.decimals)]
    /\ UNCHANGED <<chanVars, concVars, p_resp, p_kind, p_out, loop, svc>>

\* bcd_unpack of a field received from a pump
UnpackRaw(raw, decimals) ==
    /\ codec.op = "none"
    /\ codec' = [NoCodec EXCEPT !.op = "raw", !.decimals = decimals,
                                !.packed = [exc |-> "none", val |-> raw],
                                !.out = bcd_unpack(raw, decimals)]
    /\ UNCHANGED <<chanVars, concVars, p_resp, p_kind, p_out, loop, svc>>

NextBcd ==
    \/ \E s \in ScaledValues, d \in DecimalsUsed, n \in Lengths : Pack(s, d, n)
    \/ Unpack
    \/ \E raw \in RawFields, d \in DecimalsUsed : UnpackRaw(raw, d)

SpecBcd == InitDriver /\ [][NextBcd]_vars

(***************************************************************************)
(* Claims about the BCD codec (SpecBcd).                                   *)
(***************************************************************************)
Packed == codec.op \in {"packed", "unpacked"}

\* s fits the field: it has at most 2 * length digits
Fits == Len(codec.s) <= 2 * codec.length

\* C17 (as claimed): every byte bcd_pack produces holds the digit pair (t, u)
\* of the zero-padded scaled value as 16 * t + u (high nibble tens, low
\* nibble units).
C17_PackedDecimalNibbles ==
    (Packed /\ Fits /\ codec.packed.exc = "none") =>
        LET digits == ZeroPad(ScaledOf(codec.s, codec.decimals), 2 * codec.length)
            bytes == codec.packed.val
        IN  \A k \in 1..Len(bytes) :
                bytes[k] = 16 * digits[2 * k - 1] + digits[2 * k]

\* C18 (as claimed): bcd_pack fails whenever the scaled value needs more
\* than 2 * length digits, and packs every value that fits.
C18_OverflowFails ==
    Packed => (codec.packed.exc = "none" <=> Fits)

\* the two decimal digits a packed-decimal byte holds in its nibbles
RECURSIVE NibbleDigits(_, _)
NibbleDigits(bcd, i) ==
    IF i > Len(bcd) THEN <<>>
    ELSE <<bcd[i] \div 16, bcd[i] % 16>> \o NibbleDigits(bcd, i + 1)

\* C19 (as claimed): bcd_unpack reads each byte as the two decimal digits of
\* its nibbles and fails for every input with a nibble in 10..15.
C19_NibblesChecked ==
    codec.op = "raw" =>
        LET nibbles == NibbleDigits(codec.packed.val, 1)
        IN  IF \E k \in 1..Len(nibbles) : nibbles[k] >= 10
            THEN codec.out.exc # "none"
            ELSE /\ codec.out.exc = "none"
                 /\ codec.out.val = <<IntOfDigits(nibbles), codec.decimals>>

\* C20 (as claimed): for every width n, decimals d and scaled s < 10^(2n),
\* bcd_pack of s / 10^d gives exactly n bytes and bcd_unpack of them gives
\* back exactly s scaled units.
C20_RoundTrip ==
    /\ (Packed /\ Fits) =>
           /\ codec.packed.exc = "none"
           /\ Len(codec.packed.val) = codec.length
    /\ (codec.op = "unpacked" /\ Fits) =>
           /\ codec.out.exc = "none"
           /\ codec.out.val = <<codec.s, codec.decimals>>

(***************************************************************************)
(* Claims about parse_response (SpecParse).                                *)
(***************************************************************************)
Parsed == p_out # NotParsed

\* the fields of the records lying between CTRL and the CRC field of a block
OwnRecordFields(resp) == DecodeLoop(Slice(resp, 2, FromEnd(resp, 4)), 0, EmptyData, <<>>)

\* C9 (as claimed): for a validly framed block parse_response decodes only
\* the bytes between CTRL and the CRC field, so it returns exactly the fields
\* of the block's own records, whatever the CRC bytes are.
C9_CrcNotDecoded ==
    (p_kind = "valid" /\ Parsed) =>
        /\ p_out.exc = "none"
        /\ p_out.data = OwnRecordFields(p_resp).data

\* C10: a validly framed block with one byte of ADDR..last payload byte
\* replaced by a different value (CRC and terminator as transmitted) makes
\* parse_response report a checksum mismatch.
C10_CorruptionDetected ==
    (p_kind = "corrupted" /\ Parsed) => p_out.exc = "CRC mismatch"

C10_Witness == p_kind = "corrupted" /\ Parsed /\ p_out.exc = "CRC mismatch"

\* C11 (as claimed): when the transmitted CRC of a block disagrees with the
\* recomputed one, parse_response reports the mismatch and still returns the
\* fields of the records that can be decoded from the block.
C11_PartialDataOnMismatch ==
    (p_kind = "corrupted" /\ Parsed /\ OwnRecordFields(p_resp).exc = "none") =>
        /\ p_out.exc = "CRC mismatch"
        /\ p_out.data = OwnRecordFields(p_resp).data

\* C12 (as claimed): a byte string that does not end with 03 FA, of any
\* length, makes parse_response fail; it is neither answered with a silent
\* empty result nor decoded as if it were correctly terminated.
C12_TruncatedIsFramingError ==
    (p_kind = "truncated" /\ Parsed) => p_out.exc # "none"

\* C13 (as claimed): a record whose header or declared length extends past
\* the bytes of the payload region is rejected: parse_response fails and no
\* field is decoded from it.
C13_OverlongRecordRejected ==
    (p_kind = "malformed" /\ Parsed) =>
        /\ p_out.exc # "none"
        /\ p_out.data = EmptyData

(***************************************************************************)
(* Claims about the sequential session (Spec).                             *)
(***************************************************************************)
Sent == wire.packet # <<>>
FirstSend == Sent /\ prev.hdr = <<>>

\* C1: the block send_command of src/driver.py writes is ADDR=0x50+p, CTRL,
\* 01, 01, dcc, CRC_LO, CRC_HI, 03, FA with the CRC of the first five bytes,
\* low byte first; the first block of a fresh session to pump 1 with dcc 0 is
\* 51 90 01 01 00 (FD 7D 03 FA by calc_crc of src/utils.py).
C1_BlockLayout ==
    (impl = "driver" /\ Sent) =>
        LET pk == wire.packet
            crc == calc_crc(SubSeq(pk, 1, 5))
        IN  /\ Len(pk) = 9
            /\ pk[2] \in 0..255
            /\ pk = <<80 + wire.pump_id, pk[2], 1, 1, wire.dcc,
                      crc % 256, crc \div 256, 3, 250>>
            /\ (FirstSend /\ wire.pump_id = 1 /\ wire.dcc = 0)
                   => pk = <<81, 144, 1, 1, 0, 253, 125, 3, 250>>

C1_Witness ==
    impl = "driver" /\ FirstSend /\ wire.pump_id = 1 /\ wire.dcc = 0
    /\ call.outcome = "returned"

C3_CtrlCarriesSeq ==
    (impl = "driver" /\ Sent) =>
        LET ctrl == wire.packet[2]
        IN  /\ ctrl \in 0..255
            /\ ctrl \div 128 = 1
            /\ (ctrl \div 16) % 8 = wire.txn
            /\ ctrl % 16 = 0

\* C4 (as claimed): two consecutive blocks sent to the same pump carry
\* different control bytes, with either driver.
C4_CtrlDistinguishes ==
    (Sent /\ prev.hdr # <<>> /\ prev.hdr[1] = wire.packet[1])
        => prev.hdr[2] # wire.packet[2]

\* C7 (as claimed): every exchange, with either driver, discards the stale
\* input, then writes, then reads, and no byte pending before the write is
\* part of the response.
C7_StaleDiscarded ==
    call.outcome = "returned" =>
        /\ call.ops = <<"reset_input_buffer", "write", "read_until">>
        /\ call.stale = 0

\* C8 (as claimed): a read that ends by timeout, without the terminator 0xFA
\* (zero bytes included), is never handed back as an ordinary response.
C8_TimeoutIsFailure ==
    call.outcome = "returned" =>
        (call.resp # <<>> /\ call.resp[Len(call.resp)] = SF)

\* C14 (as claimed): the sequence counter of a src/driver.py session changes
\* only in a send_command call that sends its block: a call that fails
\* (port not open, or the write raises) leaves the counter as it was.
C14_CounterOnlyOnSuccess ==
    [][(impl = "driver" /\ tx_number' # tx_number) => call'.outcome = "returned"]_vars

\* C15: send_command of src/driver.py on a port never opened, or closed by
\* close(), raises before any channel operation: nothing is written, reset
\* or read and the counter is not advanced; on an open port the call goes on
\* to write its block.
C15_ClosedFailsFirst ==
    [][(impl = "driver" /\ call' # call) =>
          IF ser = "open"
          THEN /\ call'.outcome \in {"returned", "SerialException"}
               /\ \E k \in 1..Len(call'.ops) : call'.ops[k] = "write"
          ELSE /\ call'.outcome = "RuntimeError"
               /\ call'.ops = <<>>
               /\ UNCHANGED <<inbuf, wire, prev, tx_number, ser>>]_vars

\* a block was sent, the port was closed by close(), and a call then failed
C15_Witness ==
    /\ impl = "driver"
    /\ ser = "closed"
    /\ Sent
    /\ call.outcome = "RuntimeError"
    /\ call.ops = <<>>

OpCount(ops, name) == Cardinality({k \in 1..Len(ops) : ops[k] = name})

\* C16: a send_command call writes its block at most once and reads at most
\* once, whatever the read returned (a block, a partial block, or nothing),
\* and parse_response performs no channel operation.
C16_NoRetry ==
    [][/\ (impl = "driver" /\ call' # call) =>
              /\ OpCount(call'.ops, "write") <= 1
              /\ OpCount(call'.ops, "read_until") <= 1
       /\ (p_kind' = "returned" /\ p_out' # p_out) =>
              UNCHANGED <<ser, tx_number, inbuf, wire, prev, call>>]_vars

\* a read that timed out empty was returned after one write and one read, and
\* the empty response was then parsed
C16_Witness ==
    /\ impl = "driver"
    /\ call.outcome = "returned"
    /\ call.resp = <<>>
    /\ OpCount(call.ops, "write") = 1
    /\ OpCount(call.ops, "read_until") = 1
    /\ p_kind = "returned"
    /\ p_resp = <<>>
    /\ p_out.exc = "IndexError"

(***************************************************************************)
(* SpecLoop / SpecSioLoop: the record loop of parse_response, one `while`  *)
(* iteration per step.  src/driver.py runs it over core = resp[2:-2], the  *)
(* records followed by the two CRC bytes; src/serial_io/driver.py runs it  *)
(* over the records alone.                                                 *)
(***************************************************************************)
\* one status record for every value of the status byte
StatusRecords == {<<1, 1, st>> : st \in 0..255}
\* one nozzle+price record (price 05.50) for every value of the nozzle byte
NozzleRecords == {<<3, 4, 0, 5, 80, nz>> : nz \in 0..255}
\* known records around records of unrecognized codes, and records whose
\* LEN is 0 or 255
MixedRecords ==
    { <<1, 1, 2, 5, 0, 3, 4, 0, 5, 80, 18>>,
      <<1, 1, 4, 8, 2, 170, 187, 1, 1, 5>>,
      <<6, 1, 9, 1, 1, 2>>,
      <<4, 0, 240, 0, 1, 1, 6>>,
      <<5, 0, 5, 0, 5, 0, 5, 0>>,
      <<1, 1, 2, 8, 255, 1, 1, 5>>,
      <<8, 255>>,
      <<>> }
\* the 15 grade bytes with exactly the bytes at the positions in S non-zero
GradeBytes(S, v) == [k \in 1..15 |-> IF (k - 1) \in S THEN v ELSE 0]
GradeSets == {{j} : j \in 0..14} \cup {{}, 0..14, {0, 2, 4, 14}, {1, 13}}
\* pump-parameter records: 15 grade bytes alone, after reserved bytes, or cut
\* short
GradeRecords ==
    {<<7, 15>> \o GradeBytes(S, 1) : S \in GradeSets}
    \cup {<<7, 17, 9, 9>> \o GradeBytes(S, 255) : S \in GradeSets}
    \cup {<<7, 3, 0, 1, 1>>, <<7, 0>>, <<1, 1, 2, 7, 16, 1>> \o GradeBytes({3}, 2)}
LoopRecords == StatusRecords \cup NozzleRecords \cup MixedRecords \cup GradeRecords
\* CRC bytes that follow the records in core
CrcTails == {<<201, 183>>, <<9, 135>>, <<7, 219>>}

\* nozzles = [i + 1 for i in range(15) if (mask >> i) & 1]
RECURSIVE NozzlesFrom(_, _)
NozzlesFrom(mask, i) ==
    IF i >= 15 THEN <<>>
    ELSE (IF BitAnd(Shr(mask, i), 1) # 0 THEN <<i + 1>> ELSE <<>>)
         \o NozzlesFrom(mask, i + 1)

\* list_nozzles: mask = parsed.get("grades_mask", 0), then the nozzle list
list_nozzles(parsed) ==
    NozzlesFrom(IF parsed.grades_mask = <<>> THEN 0 ELSE parsed.grades_mask[1], 0)

\* parse_response reaches `i = 0` with the region the loop runs over
StartLoop(records, crc) ==
    /\ loop.pc = "idle"
    /\ loop' = [pc |-> "running",
                core |-> IF impl = "driver" THEN records \o crc ELSE records,
                i |-> 0,
                data |-> IF impl = "driver" THEN EmptyData ELSE SioEmptyData,
                iters |-> 0, prev_i |-> 0,
                prev_data |-> IF impl = "driver" THEN EmptyData ELSE SioEmptyData,
                nozzles |-> <<>>]
    /\ UNCHANGED <<chanVars, concVars, parseVars, codec, svc>>

\* one iteration of the `while` body: it raises, or it ends with i += 2 + ln
Iterate ==
    /\ loop.pc = "running"
    /\ loop.i < Len(loop.core)
    /\ LET r == IF impl = "driver" THEN DecodeRecord(loop.core, loop.i, loop.data)
                ELSE SioDecodeRecord(loop.core, loop.i, loop.data)
       IN  loop' = IF r.exc # "none"
                   THEN [loop EXCEPT !.pc = r.exc, !.prev_i = loop.i,
                                     !.prev_data = loop.data]
                   ELSE [loop EXCEPT !.i = NextCursor(loop.core, loop.i),
                                     !.data = r.data,
                                     !.iters = loop.iters + 1,
                                     !.prev_i = loop.i,
                                     !.prev_data = loop.data]
    /\ UNCHANGED <<chanVars, concVars, parseVars, codec, svc>>

\* the `while` condition fails: return data (list_nozzles then lists the
\* nozzles of the returned mask)
Return ==
    /\ loop.pc = "running"
    /\ loop.i >= Len(loop.core)
    /\ loop' = [loop EXCEPT !.pc = "returned",
                            !.nozzles = IF impl = "driver" THEN list_nozzles(loop.data)
                                        ELSE <<>>]
    /\ UNCHANGED <<chanVars, concVars, parseVars, codec, svc>>

NextLoop ==
    \/ \E records \in LoopRecords, crc \in CrcTails : StartLoop(records, crc)
    \/ Iterate
    \/ Return

SpecLoop == InitDriver /\ [][NextLoop]_vars
SpecSioLoop == InitSio /\ [][NextLoop]_vars
\* parse_response runs to its end once called
SpecLoopFair == SpecLoop /\ WF_vars(Iterate) /\ WF_vars(Return)

(***************************************************************************)
(* Claims about the record loop (SpecLoop, SpecSioLoop).                   *)
(***************************************************************************)
\* the exception names a loop iteration can end with
Raised == loop.pc \notin {"idle", "running", "returned"}
\* an iteration has run; loop.prev_i is the cursor it started at
Ran == loop.iters > 0 \/ Raised
\* the record the last iteration ran on: its code, its LEN byte and the
\* payload bytes present in the region
LastCode == loop.core[loop.prev_i + 1]
LastLen == loop.core[loop.prev_i + 2]
LastContent == Slice(loop.core, loop.prev_i + 2, loop.prev_i + 2 + LastLen)

\* the table of the claim
ClaimedStatus(st) ==
    CASE st = 0 -> <<"NOT_PROGRAMMED">>
      [] st = 1 -> <<"RESET">>
      [] st = 2 -> <<"AUTHORIZED">>
      [] st = 4 -> <<"FILLING">>
      [] st = 5 -> <<"FILLING_COMPLETE">>
      [] st = 6 -> <<"MAX_REACHED">>
      [] st = 7 -> <<"SWITCHED_OFF">>
      [] OTHER -> <<"UNKNOWN", st>>

\* C21 (as claimed): after the iteration on a status record (0x01) with a
\* payload byte st, pump_status is present and is the claimed table's name
\* for st, or the unknown-status value carrying st when st is none of
\* 0, 1, 2, 4, 5, 6, 7.
C21_StatusTable ==
    (Ran /\ LastCode = 1 /\ Len(LastContent) >= 1) =>
        /\ ~Raised
        /\ loop.data.pump_status = <<ClaimedStatus(LastContent[1])>>

\* C22 (as claimed): after the iteration on a nozzle+price record (0x03)
\* with four payload bytes, the nozzle is the low 4 bits of payload byte 3
\* (0 reported as no nozzle) and the raised flag is bit 4, whatever bits
\* 5..7 are.
C22_NozzleBits ==
    (Ran /\ LastCode = 3 /\ LastLen = 4 /\ Len(LastContent) = 4) =>
        /\ ~Raised
        /\ LET b == LastContent[4]
           IN  /\ loop.data.current_nozzle = <<IF b % 16 = 0 THEN PyNone ELSE b % 16>>
               /\ loop.data.nozzle_out = <<(b \div 16) % 2 = 1>>

\* the transaction codes parse_response of src/driver.py decodes
KnownCodes == {1, 2, 3, 7, 9}
\* the loop is about to run on a complete record header of an unknown code
UnknownAtCursor ==
    /\ loop.pc = "running"
    /\ loop.i + 2 <= Len(loop.core)
    /\ loop.core[loop.i + 1] \notin KnownCodes
\* the last iteration skipped an unknown record and the cursor is on a
\* complete record of code `code` with at least n payload bytes
KnownAfterUnknown(code, n) ==
    /\ loop.pc = "running" /\ loop.iters > 0 /\ LastCode \notin KnownCodes
    /\ loop.i + 2 + n <= Len(loop.core)
    /\ loop.core[loop.i + 1] = code
    /\ loop.core[loop.i + 2] >= n

\* C23: an iteration on a record of an unrecognized code raises nothing,
\* keeps every field decoded so far and moves the cursor by exactly
\* 2 + LEN; the iteration after it decodes the record found there (a
\* status record sets pump_status, a nozzle+price record sets the nozzle)
\* and keeps the other fields.
C23_UnknownSkipped ==
    /\ [][UnknownAtCursor =>
            /\ loop'.pc = "running"
            /\ loop'.data = loop.data
            /\ loop'.i = loop.i + 2 + loop.core[loop.i + 2]]_vars
    /\ [][KnownAfterUnknown(1, 1) =>
            /\ loop'.pc = "running"
            /\ loop'.data = [loop.data EXCEPT
                   !.pump_status = <<ClaimedStatus(loop.core[loop.i + 3])>>]]_vars
    /\ [][KnownAfterUnknown(3, 4) =>
            /\ loop'.pc = "running"
            /\ loop'.data.pump_status = loop.data.pump_status
            /\ loop'.data.current_nozzle # <<>>]_vars

\* a status record, an unknown record and a nozzle+price record were run
\* through: both known records are in the dict
C23_Witness ==
    /\ loop.core = <<1, 1, 2, 5, 0, 3, 4, 0, 5, 80, 18, 201, 183>>
    /\ loop.iters = 3
    /\ loop.data.pump_status = <<<<"AUTHORIZED">>>>
    /\ loop.data.current_nozzle = <<2>>
    /\ loop.data.nozzle_out = <<TRUE>>

\* the trailing 15 payload bytes of the record of the last iteration
LastTrailing == Slice(LastContent, FromEnd(LastContent, 15), Len(LastContent))
\* bit i of mask
BitOf(mask, i) == (mask \div Pow2(i)) % 2
\* the mask list_nozzles works on: parsed.get("grades_mask", 0)
ReturnedMask == IF loop.data.grades_mask = <<>> THEN 0 ELSE loop.data.grades_mask[1]

HasCodec(m) == m = "driver"

\* if nozzle:
Truthy(nozzle) == nozzle # <<>> /\ nozzle[1] # 0

\* bytes([...]) of integers: ValueError unless every one is in range(256)
BytesOf(ints) ==
    IF \E k \in 1..Len(ints) : ints[k] < 0 \/ ints[k] > 255
    THEN [exc |-> "ValueError", val |-> <<>>]
    ELSE [exc |-> "none", val |-> ints]

\* (mutant of HighestNozzle: the number of entries of the map)
HighestNozzle_Count(prices) == Cardinality(DOMAIN prices)

\* nozzle_numbers = sorted(prices.keys()); N = nozzle_numbers[-1] if
\* nozzle_numbers else 0
HighestNozzle(prices) ==
    IF DOMAIN prices = {} THEN 0
    ELSE CHOOSE n \in DOMAIN prices : \A k \in DOMAIN prices : k <= n

\* for n in range(n, N+1): price_bytes += bcd_pack(prices.get(n, 0.0), ...)
RECURSIVE PriceBytes(_, _, _)
PriceBytes(prices, n, N) ==
    IF n > N THEN [exc |-> "none", val |-> <<>>]
    ELSE LET price_val == IF n \in DOMAIN prices THEN prices[n] ELSE <<0>>
             price_bcd == bcd_pack(price_val, PRICE_DECIMALS, 3)
             rest == PriceBytes(prices, n + 1, N)
         IN  IF price_bcd.exc # "none" THEN price_bcd
             ELSE IF rest.exc # "none" THEN rest
             ELSE [exc |-> "none", val |-> price_bcd.val \o rest.val]

\* set_price up to `transaction = bytes([trans_code, length]) + price_bytes`
ComposeSetPrice(m, prices) ==
    LET N == HighestNozzle(prices)
    IN  IF N >= 1 /\ ~HasCodec(m) THEN [exc |-> "NameError", val |-> <<>>]
        ELSE LET price_bytes == PriceBytes(prices, 1, N)
             IN  IF price_bytes.exc # "none" THEN price_bytes
                 ELSE LET head == BytesOf(<<5, Len(price_bytes.val)>>)
                      IN  IF head.exc # "none" THEN head
                          ELSE [exc |-> "none", val |-> head.val \o price_bytes.val]

\* if nozzle: transactions += bytes([0x02, 1]) + bytes([nozzle])
AllowedNozzle(nozzle) ==
    IF Truthy(nozzle)
    THEN LET data_bytes == BytesOf(<<nozzle[1]>>)
         IN  IF data_bytes.exc # "none" THEN data_bytes
             ELSE [exc |-> "none", val |-> <<2, Len(data_bytes.val)>> \o data_bytes.val]
    ELSE [exc |-> "none", val |-> <<>>]

\* authorize up to `transactions += bytes([trans_code, 1, dcc_authorize])`
ComposeAuthorize(nozzle) ==
    LET allowed == AllowedNozzle(nozzle)
    IN  IF allowed.exc # "none" THEN allowed
        ELSE [exc |-> "none", val |-> allowed.val \o <<1, 1, 6>>]

\* (mutant of PresetRecord: the amount is taken when both are given)
PresetRecord_AmountFirst(m, volume, amount) ==
    IF amount # <<>>
    THEN IF ~HasCodec(m) THEN [exc |-> "NameError", val |-> <<>>]
         ELSE LET amt_bytes == bcd_pack(amount[1], AMT_DECIMALS, 4)
              IN  IF amt_bytes.exc # "none" THEN amt_bytes
                  ELSE [exc |-> "none", val |-> <<4, Len(amt_bytes.val)>> \o amt_bytes.val]
    ELSE IF volume # <<>>
    THEN IF ~HasCodec(m) THEN [exc |-> "NameError", val |-> <<>>]
         ELSE LET vol_bytes == bcd_pack(volume[1], VOL_DECIMALS, 4)
              IN  IF vol_bytes.exc # "none" THEN vol_bytes
                  ELSE [exc |-> "none", val |-> <<3, Len(vol_bytes.val)>> \o vol_bytes.val]
    ELSE [exc |-> "none", val |-> <<>>]

\* if volume is not None: ... elif amount is not None: ...
PresetRecord(m, volume, amount) ==
    IF volume # <<>>
    THEN IF ~HasCodec(m) THEN [exc |-> "NameError", val |-> <<>>]
         ELSE LET vol_bytes == bcd_pack(volume[1], VOL_DECIMALS, 4)
              IN  IF vol_bytes.exc # "none" THEN vol_bytes
                  ELSE [exc |-> "none", val |-> <<3, Len(vol_bytes.val)>> \o vol_bytes.val]
    ELSE IF amount # <<>>
    THEN IF ~HasCodec(m) THEN [exc |-> "NameError", val |-> <<>>]
         ELSE LET amt_bytes == bcd_pack(amount[1], AMT_DECIMALS, 4)
              IN  IF amt_bytes.exc # "none" THEN amt_bytes
                  ELSE [exc |-> "none", val |-> <<4, Len(amt_bytes.val)>> \o amt_bytes.val]
    ELSE [exc |-> "none", val |-> <<>>]

\* preset_and_authorize up to
\* `transactions += bytes([trans_code, 1, dcc_authorize])`
ComposePreset(m, nozzle, volume, amount) ==
    LET allowed == AllowedNozzle(nozzle)
        preset == PresetRecord(m, volume, amount)
    IN  IF allowed.exc # "none" THEN allowed
        ELSE IF preset.exc # "none" THEN preset
        ELSE [exc |-> "none", val |-> allowed.val \o preset.val \o <<1, 1, 6>>]

\* price maps, nozzles, volumes and amounts the callers pass in the model
PriceMaps ==
    { <<>>,
      1 :> <<4, 5, 5, 0>>,
      (1 :> <<4, 5, 5, 0>>) @@ (2 :> <<4, 7, 9, 9>>),
      2 :> <<5, 0, 0, 0>>,
      (1 :> <<1, 0, 0>>) @@ (4 :> <<9, 9, 9, 9, 9, 9>>),
      0 :> <<1, 0, 0>> }
Nozzles == {<<>>, <<0>>, <<1>>, <<15>>, <<256>>}
Volumes == {<<>>, <<<<0>>>>, <<<<1, 0, 0, 0, 0>>>>}
Amounts == {<<>>, <<<<5, 0, 0, 0>>>>}

\* what the operations compose for the arguments of the model, the
\* transaction byte strings among it and the blocks
\* src/serial_io/driver.py makes of them, computed once
Impls == {"driver", "serial_io"}
SetPriceComposed == [m \in Impls, prices \in PriceMaps |-> ComposeSetPrice(m, prices)]
AuthorizeComposed == [nozzle \in Nozzles |-> ComposeAuthorize(nozzle)]
PresetComposed ==
    [m \in Impls, nozzle \in Nozzles, volume \in Volumes, amount \in Amounts |->
        ComposePreset(m, nozzle, volume, amount)]
SvcTransactions ==
    {SetPriceComposed["driver", prices].val : prices \in PriceMaps}
    \cup {PresetComposed["driver", nozzle, volume, amount].val :
              nozzle \in Nozzles, volume \in Volumes, amount \in Amounts}
\* the pump the service operations address in the model
SvcPumps == {1}
\* parse_response of src/serial_io/driver.py on the replies of the model
SioParsed == [r \in UNION {Replies[p] : p \in SvcPumps} |-> SioParseResponse(r)]
SvcPackets == [p \in SvcPumps, t \in SvcTransactions |-> SioPacketOf(p, t)]

\* response = driver.send_command(pump_id, transactions), then
\* parsed = driver.parse_response(response) and the logging calls, for the
\* transactions `composed` of operation `op`
ServiceCall(op, pump_id, args, composed, reply) ==
    LET was_open == IsOpen(ser)
        done(outcome) == [args EXCEPT !.op = op, !.pump_id = pump_id,
                                      !.composed = composed,
                                      !.was_open = was_open,
                                      !.outcome = outcome]
    IN  IF composed.exc # "none"
        THEN /\ svc' = done(composed.exc)
             /\ ForgetParse
             /\ UNCHANGED chanVars
        ELSE IF ~was_open
        THEN /\ svc' = done("RuntimeError")
             /\ call' = [NoCall EXCEPT !.outcome = "RuntimeError"]
             /\ ForgetParse
             /\ UNCHANGED <<impl, ser, tx_number, inbuf, wire, prev>>
        ELSE IF impl = "driver"
        THEN \* src/driver.py takes the transactions as dcc: line 54 has run
             \* when bytes([dcc]) at line 59 raises TypeError
             /\ svc' = done("TypeError")
             /\ tx_number' = next_tx(tx_number)
             /\ call' = [NoCall EXCEPT !.outcome = "TypeError"]
             /\ ForgetParse
             /\ UNCHANGED <<impl, ser, inbuf, wire, prev>>
        ELSE LET x == Exchange(inbuf, reply)
                 parsed == IF x.resp \in DOMAIN SioParsed THEN SioParsed[x.resp]
                           ELSE SioParseResponse(x.resp)
             IN  \* src/services/pump_service.py does not import logging
                 /\ svc' = done(IF parsed.exc # "none" THEN parsed.exc ELSE "NameError")
                 /\ wire' = [packet |-> SvcPackets[pump_id, composed.val],
                             pump_id |-> pump_id, dcc |-> 0, txn |-> 0]
                 /\ prev' = PrevOf(wire)
                 /\ inbuf' = x.rest
                 /\ call' = [outcome |-> "returned", resp |-> x.resp,
                             ops |-> <<"write", "read_until">>, stale |-> x.stale]
                 /\ p_resp' = x.resp
                 /\ p_kind' = "returned"
                 /\ p_out' = parsed
                 /\ UNCHANGED <<impl, ser, tx_number>>

\* set_price(pump_id, prices)
SetPrice(pump_id, prices, reply) ==
    /\ ServiceCall("set_price", pump_id, [NoSvc EXCEPT !.prices = prices],
                   SetPriceComposed[impl, prices], reply)
    /\ UNCHANGED <<concVars, codec, loop>>

\* authorize(pump_id, nozzle)
Authorize(pump_id, nozzle, reply) ==
    /\ ServiceCall("authorize", pump_id, [NoSvc EXCEPT !.nozzle = nozzle],
                   AuthorizeComposed[nozzle], reply)
    /\ UNCHANGED <<concVars, codec, loop>>

\* preset_and_authorize(pump_id, request)
PresetAndAuthorize(pump_id, nozzle, volume, amount, reply) ==
    /\ ServiceCall("preset_and_authorize", pump_id,
                   [NoSvc EXCEPT !.nozzle = nozzle, !.volume = volume,
                                 !.amount = amount],
                   PresetComposed[impl, nozzle, volume, amount], reply)
    /\ UNCHANGED <<concVars, codec, loop>>

\* what the pump may reply to a block the operation gets onto the line (no
\* block gets there through src/driver.py)
SvcReplies(p) == IF impl = "driver" THEN {<<>>} ELSE Replies[p]

NextSvc ==
    \/ Open
    \/ \E p \in SvcPumps, prices \in PriceMaps : \E reply \in SvcReplies(p) :
           SetPrice(p, prices, reply)
    \/ \E p \in SvcPumps, nozzle \in Nozzles : \E reply \in SvcReplies(p) :
           Authorize(p, nozzle, reply)
    \/ \E p \in SvcPumps, nozzle \in Nozzles, volume \in Volumes, amount \in Amounts :
           \E reply \in SvcReplies(p) :
               PresetAndAuthorize(p, nozzle, volume, amount, reply)

SpecSvc == Init /\ [][NextSvc]_vars

(***************************************************************************)
(* Claims about the service layer (SpecSvc).                               *)
(***************************************************************************)
\* the highest key of the price map of the last call, 0 for the empty map
ClaimedN ==
    IF DOMAIN svc.prices = {} THEN 0
    ELSE Max(0, CHOOSE n \in DOMAIN svc.prices : \A k \in DOMAIN svc.prices : k <= n)
\* the 3-byte entry of nozzle n in the composed price-update record
EntryOf(n) == SubSeq(svc.composed.val, 3 * n, 3 * n + 2)

\* C25 (as claimed): set_price composes one record: 0x05, the length byte
\* 3 * N for N the highest nozzle number of the map, then one 3-byte entry
\* per nozzle 1..N in ascending order, all zero for a nozzle absent from
\* the map; the length byte is the number of bytes that follow, and the
\* empty map gives 05 00.
C25_PriceRecord ==
    svc.op = "set_price" =>
        /\ svc.composed.exc = "none"
        /\ Len(svc.composed.val) = 2 + 3 * ClaimedN
        /\ svc.composed.val[1] = 5
        /\ svc.composed.val[2] = Len(svc.composed.val) - 2
        /\ \A n \in 1..ClaimedN :
              EntryOf(n) = IF n \in DOMAIN svc.prices
                           THEN bcd_pack(svc.prices[n], PRICE_DECIMALS, 3).val
                           ELSE <<0, 0, 0>>
        /\ (DOMAIN svc.prices = {}) => svc.composed.val = <<5, 0>>

\* the records CODE LEN PAYLOAD a transaction byte string is made of, in
\* order, as <<code, payload>> pairs
RECURSIVE RecordsOf(_)
RecordsOf(bytes) ==
    IF Len(bytes) < 2 THEN <<>>
    ELSE <<<<bytes[1], Slice(bytes, 2, 2 + bytes[2])>>>>
         \o RecordsOf(Slice(bytes, 2 + bytes[2], Len(bytes)))
CodesOf(bytes) == [k \in 1..Len(RecordsOf(bytes)) |-> RecordsOf(bytes)[k][1]]

C27_ComposedOnWire ==
    (impl = "driver" /\ svc.op # "none" /\ svc.composed.exc = "none" /\ svc.was_open) =>
        /\ wire.packet # <<>>
        /\ Slice(wire.packet, 2, FromEnd(wire.packet, 4)) = svc.composed.val

\* C28 (as claimed): the block send_command of src/serial_io/driver.py has
\* written for the caller's transactions is ADDR, CTRL, the transactions,
\* the CRC of all that low byte first, 03, FA and nothing else, and its own
\* parse_response, given that block, raises nothing, flags no CRC error
\* and starts decoding at the caller's first record.
C28_SioBlockLayout ==
    (impl = "serial_io" /\ svc.op # "none" /\ svc.composed.exc = "none" /\ svc.was_open) =>
        LET head == <<80 + svc.pump_id, SioCtrlByte(svc.pump_id)>> \o svc.composed.val
            own == SioParseResponse(wire.packet)
        IN  /\ wire.packet = head \o CrcBytes(calc_crc(head)) \o <<ETX, SF>>
            /\ own.exc = "none"
            /\ own.data.error = <<>>
            /\ own.trail # <<>>
            /\ Slice(wire.packet, 2, Len(wire.packet))[own.trail[1] + 1] = svc.composed.val[1]

C30_LoopTerminates ==
    /\ [][loop'.iters = loop.iters + 1 =>
             /\ loop'.i = loop.i + 2 + loop.core[loop.i + 2]
             /\ loop'.i >= loop.i + 2]_vars
    /\ [](2 * loop.iters <= Len(loop.core))
    /\ (loop.pc = "running") ~> (loop.pc # "running")

\* a region of four records with LEN = 0 and the two CRC bytes was run
\* through in five iterations, the last one with LEN = 183 past the end
C30_Witness ==
    /\ loop.pc = "returned"
    /\ loop.core = <<5, 0, 5, 0, 5, 0, 5, 0, 201, 183>>
    /\ loop.iters = 5
    /\ loop.i = 193

====
